---- MODULE Spec2Model ----
(***************************************************************************)
(* Model of the casdoor Rust SDK's token-claims validation                 *)
(* (src/authn/models.rs, impl RegisteredClaims) and of the URL query       *)
(* serialization of EnforceQueryArgs (src/enforcer/models.rs).             *)
(*                                                                         *)
(* Instants (chrono DateTime<Utc>, nanosecond resolution) are integers     *)
(* counting ticks from the Unix epoch, TicksPerSec ticks to the second, so *)
(* that DateTime::timestamp(), which truncates an instant to whole         *)
(* seconds, is a real conversion and not the identity.                     *)
(***************************************************************************)
EXTENDS Integers, Sequences, FiniteSets, TLC

VARIABLES
    claims,      \* the RegisteredClaims value under validation (&self)
    last,        \* the most recent completed call: function, arguments, return value
    prev,        \* the call before it, kept when it is the same function with the
                 \* same require flag at an earlier comparison time
    calls,       \* concurrent callers: each caller's call in flight
    args,        \* an EnforceQueryArgs value
    query_part   \* the query string serialized from args

vars == <<claims, last, prev, calls, args, query_part>>

----------------------------------------------------------------------------
(* Bounds of the model                                                     *)

TicksPerSec == 2      \* sub-second resolution of an instant
PastTicks == 1        \* instants range from this many ticks before the epoch
FutureTicks == 3      \* ... to this many ticks after it
NumCallers == 2       \* concurrent callers sharing one claims value

----------------------------------------------------------------------------
(* Option<T>, NumericDate = DateTime<Utc>                                  *)

None == <<>>
Some(x) == <<x>>
Unwrap(o) == o[1]
Option(S) == {None} \cup {Some(x) : x \in S}

NumericDate == (0 - PastTicks) .. FutureTicks

\* DateTime::timestamp(): whole seconds since the epoch, rounded down.
timestamp(t) == t \div TicksPerSec

\* The value cmp.timestamp() is compared with: the epoch second.
ZeroTimestamp == 0

\* The instant 1970-01-01T00:00:00Z itself.
Epoch == ZeroTimestamp * TicksPerSec

\* The fields of RegisteredClaims that no verify function reads.
OtherFields ==
    { [issuer |-> None, subject |-> None, audience |-> <<>>, id |-> None],
      [issuer |-> Some("iss"), subject |-> Some("sub"),
       audience |-> <<"aud">>, id |-> Some("jti")] }

RegisteredClaims ==
    { [issuer |-> o.issuer, subject |-> o.subject, audience |-> o.audience,
       expires_at |-> e, not_before |-> n, issued_at |-> i, id |-> o.id] :
         o \in OtherFields,
         e \in Option(NumericDate),
         n \in Option(NumericDate),
         i \in Option(NumericDate) }

----------------------------------------------------------------------------
(* impl RegisteredClaims                                                   *)

verify_expires_at_inclusive(c, cmp, require) ==
    IF timestamp(cmp) = ZeroTimestamp THEN ~require
    ELSE IF c.expires_at # None THEN cmp <= Unwrap(c.expires_at)
    ELSE ~require

verify_expires_at_unchecked(c, cmp, require) ==
    IF c.expires_at # None THEN cmp < Unwrap(c.expires_at)
    ELSE ~require

verify_expires_at_reversed(c, cmp, require) ==
    IF timestamp(cmp) = ZeroTimestamp THEN ~require
    ELSE IF c.expires_at # None THEN Unwrap(c.expires_at) < cmp
    ELSE ~require

verify_expires_at(c, cmp, require) ==
    IF timestamp(cmp) = ZeroTimestamp THEN ~require
    ELSE IF c.expires_at # None THEN cmp < Unwrap(c.expires_at)
    ELSE ~require

verify_issued_at_strict(c, cmp, require) ==
    IF timestamp(cmp) = ZeroTimestamp THEN ~require
    ELSE IF c.issued_at # None THEN cmp > Unwrap(c.issued_at)
    ELSE ~require

verify_issued_at(c, cmp, require) ==
    IF timestamp(cmp) = ZeroTimestamp THEN ~require
    ELSE IF c.issued_at # None THEN cmp >= Unwrap(c.issued_at)
    ELSE ~require

verify_not_before_strict(c, cmp, require) ==
    IF timestamp(cmp) = ZeroTimestamp THEN ~require
    ELSE IF c.not_before # None THEN cmp > Unwrap(c.not_before)
    ELSE ~require

verify_not_before_absent_passes(c, cmp, require) ==
    IF timestamp(cmp) = ZeroTimestamp THEN ~require
    ELSE IF c.not_before # None THEN cmp >= Unwrap(c.not_before)
    ELSE TRUE

verify_not_before(c, cmp, require) ==
    IF timestamp(cmp) = ZeroTimestamp THEN ~require
    ELSE IF c.not_before # None THEN cmp >= Unwrap(c.not_before)
    ELSE ~require

\* Result<(), ValidationError>
ValidationError == {"Expired", "IssuedAt", "NotValidYet"}

valid_issued_at_first(c, now) ==
    IF ~verify_issued_at(c, now, FALSE) THEN "IssuedAt"
    ELSE IF ~verify_expires_at(c, now, FALSE) THEN "Expired"
    ELSE IF ~verify_not_before(c, now, FALSE) THEN "NotValidYet"
    ELSE "Ok"

\* valid(&self), given the instant Utc::now() returned
valid(c, now) ==
    IF ~verify_expires_at(c, now, FALSE) THEN "Expired"
    ELSE IF ~verify_issued_at(c, now, FALSE) THEN "IssuedAt"
    ELSE IF ~verify_not_before(c, now, FALSE) THEN "NotValidYet"
    ELSE "Ok"

----------------------------------------------------------------------------
(* Sequential calls on one claims value                                    *)

NoCall == [fn |-> "none", cmp |-> Epoch, require |-> FALSE, ret |-> FALSE]

Call(fn, cmp, require, ret) ==
    /\ last' = [fn |-> fn, cmp |-> cmp, require |-> require, ret |-> ret]
    /\ prev' = IF last.fn = fn /\ last.require = require /\ last.cmp < cmp
               THEN last ELSE NoCall
    /\ UNCHANGED <<claims, calls, args, query_part>>

VerifyExpiresAt ==
    \E cmp \in NumericDate, require \in BOOLEAN :
        Call("verify_expires_at", cmp, require, verify_expires_at(claims, cmp, require))

VerifyIssuedAt ==
    \E cmp \in NumericDate, require \in BOOLEAN :
        Call("verify_issued_at", cmp, require, verify_issued_at(claims, cmp, require))

VerifyNotBefore ==
    \E cmp \in NumericDate, require \in BOOLEAN :
        Call("verify_not_before", cmp, require, verify_not_before(claims, cmp, require))

Valid ==
    \E now \in NumericDate :
        Call("valid", now, FALSE, valid(claims, now))

\* EnforceQueryArgs::default()
NoArgs == [permission_id |-> None, model_id |-> None,
           resource_id |-> None, enforcer_id |-> None]

InitVerify ==
    /\ claims \in RegisteredClaims
    /\ last = NoCall
    /\ prev = NoCall
    /\ calls = <<>>
    /\ args = NoArgs
    /\ query_part = None

NextVerify == VerifyExpiresAt \/ VerifyIssuedAt \/ VerifyNotBefore \/ Valid

SpecVerify == InitVerify /\ [][NextVerify]_vars

----------------------------------------------------------------------------
(* Properties of the verify functions and of valid                         *)

VerifyFns == {"verify_expires_at", "verify_issued_at", "verify_not_before"}

\* The field of the claims that a verify function inspects.
FieldOf(fn) ==
    CASE fn = "verify_expires_at" -> claims.expires_at
      [] fn = "verify_issued_at" -> claims.issued_at
      [] fn = "verify_not_before" -> claims.not_before

\* cmp lies in the second that starts at the epoch: cmp.timestamp() is 0.
InZeroSecond(t) == timestamp(t) = ZeroTimestamp

\* C1 as stated: for every cmp other than the zero epoch instant, with expiresAt
\* present, verify_expires_at is true exactly when cmp is strictly earlier than
\* expiresAt.
C1_ExpiryExclusiveOffEpochInstant ==
    (last.fn = "verify_expires_at" /\ last.cmp # Epoch /\ claims.expires_at # None)
        => (last.ret <=> last.cmp < Unwrap(claims.expires_at))

\* C1 amended: for every cmp whose whole-second timestamp is not 0 (cmp outside
\* the second that starts at the epoch), with expiresAt present, verify_expires_at
\* is true exactly when cmp is strictly earlier than expiresAt; false at equality.
C1_ExpiryExclusiveOffZeroSecond ==
    (last.fn = "verify_expires_at" /\ ~InZeroSecond(last.cmp)
        /\ claims.expires_at # None)
        => (last.ret <=> last.cmp < Unwrap(claims.expires_at))

C1_Witness ==
    /\ last.fn = "verify_expires_at"
    /\ ~InZeroSecond(last.cmp)
    /\ claims.expires_at = Some(last.cmp)
    /\ last.ret = FALSE

\* C2 as stated: for every cmp other than the zero epoch instant, with issuedAt
\* present, verify_issued_at is true exactly when cmp is at or after issuedAt.
C2_IssuedAtInclusiveOffEpochInstant ==
    (last.fn = "verify_issued_at" /\ last.cmp # Epoch /\ claims.issued_at # None)
        => (last.ret <=> last.cmp >= Unwrap(claims.issued_at))

\* C2 amended: for every cmp whose whole-second timestamp is not 0, with issuedAt
\* present, verify_issued_at is true exactly when cmp is at or after issuedAt.
C2_IssuedAtInclusiveOffZeroSecond ==
    (last.fn = "verify_issued_at" /\ ~InZeroSecond(last.cmp)
        /\ claims.issued_at # None)
        => (last.ret <=> last.cmp >= Unwrap(claims.issued_at))

C2_Witness ==
    /\ last.fn = "verify_issued_at"
    /\ ~InZeroSecond(last.cmp)
    /\ claims.issued_at = Some(last.cmp)
    /\ last.ret = TRUE

\* C3 as stated: for every cmp other than the zero epoch instant, with notBefore
\* present, verify_not_before is true exactly when cmp is at or after notBefore.
C3_NotBeforeInclusiveOffEpochInstant ==
    (last.fn = "verify_not_before" /\ last.cmp # Epoch /\ claims.not_before # None)
        => (last.ret <=> last.cmp >= Unwrap(claims.not_before))

\* C3 amended: for every cmp whose whole-second timestamp is not 0, with notBefore
\* present, verify_not_before is true exactly when cmp is at or after notBefore.
C3_NotBeforeInclusiveOffZeroSecond ==
    (last.fn = "verify_not_before" /\ ~InZeroSecond(last.cmp)
        /\ claims.not_before # None)
        => (last.ret <=> last.cmp >= Unwrap(claims.not_before))

C3_Witness ==
    /\ last.fn = "verify_not_before"
    /\ ~InZeroSecond(last.cmp)
    /\ claims.not_before = Some(last.cmp)
    /\ last.ret = TRUE

\* C4: when cmp is the zero epoch instant, each verify function returns !require,
\* whether the field it inspects is absent, earlier than, equal to or later than cmp.
C4_EpochReturnsNotRequire ==
    (last.fn \in VerifyFns /\ last.cmp = Epoch) => (last.ret = ~last.require)

\* an expired token, checked at the epoch without require, passes
C4_Witness ==
    /\ last.fn = "verify_expires_at"
    /\ last.cmp = Epoch
    /\ claims.expires_at # None
    /\ Unwrap(claims.expires_at) < last.cmp
    /\ last.require = FALSE
    /\ last.ret = TRUE

\* C5: when the field a verify function inspects is absent and cmp is not the
\* zero instant, the function returns !require, whatever the other fields hold.
C5_AbsentReturnsNotRequire ==
    (last.fn \in VerifyFns /\ FieldOf(last.fn) = None /\ last.cmp # Epoch)
        => (last.ret = ~last.require)

C5_Witness ==
    /\ last.fn = "verify_not_before"
    /\ claims.not_before = None
    /\ claims.expires_at # None
    /\ claims.issued_at # None
    /\ claims.issuer # None
    /\ ~InZeroSecond(last.cmp)
    /\ last.require = TRUE
    /\ last.ret = FALSE

\* C6: valid runs the expiry, issued-at and not-before checks at the current
\* instant with require = false, in that order, and returns the error of the first
\* that fails: Expired whenever expiry fails, IssuedAt only if expiry passes,
\* NotValidYet only if expiry and issued-at pass, Ok exactly when all three pass
\* (in particular when all three fields are absent).
C6_ValidFailsFast ==
    last.fn = "valid" =>
        LET e == verify_expires_at(claims, last.cmp, FALSE)
            i == verify_issued_at(claims, last.cmp, FALSE)
            n == verify_not_before(claims, last.cmp, FALSE)
        IN  /\ last.ret \in ValidationError \cup {"Ok"}
            /\ (last.ret = "Expired") <=> ~e
            /\ (last.ret = "IssuedAt") <=> (e /\ ~i)
            /\ (last.ret = "NotValidYet") <=> (e /\ i /\ ~n)
            /\ (last.ret = "Ok") <=> (e /\ i /\ n)
            /\ (claims.expires_at = None /\ claims.issued_at = None
                    /\ claims.not_before = None) => last.ret = "Ok"

\* all three checks fail and the first one is reported
C6_Witness ==
    /\ last.fn = "valid"
    /\ last.ret = "Expired"
    /\ ~verify_issued_at(claims, last.cmp, FALSE)
    /\ ~verify_not_before(claims, last.cmp, FALSE)

\* C7 as stated: for every current instant now and every claims value whose
\* expiresAt is present and not later than now, valid fails with Expired.
C7_ExpiredAlwaysRejected ==
    (last.fn = "valid" /\ claims.expires_at # None
        /\ Unwrap(claims.expires_at) <= last.cmp)
        => last.ret = "Expired"

\* C7 amended: for every current instant now whose whole-second timestamp is
\* not 0 and every claims value whose expiresAt is present and not later than
\* now, valid fails with Expired, whatever the other fields are.
C7_ExpiredRejectedOffZeroSecond ==
    (last.fn = "valid" /\ ~InZeroSecond(last.cmp) /\ claims.expires_at # None
        /\ Unwrap(claims.expires_at) <= last.cmp)
        => last.ret = "Expired"

\* rejected at the exact expiry instant
C7_Witness ==
    /\ last.fn = "valid"
    /\ ~InZeroSecond(last.cmp)
    /\ claims.expires_at = Some(last.cmp)
    /\ last.ret = "Expired"

\* prev and last are two calls of one verify function with the same require
\* flag, the second at a later comparison time.
Advanced(fn) == prev.fn = fn /\ last.fn = fn

\* C9 as stated: with claims and require fixed and the comparison time advancing,
\* verify_issued_at (verify_not_before) false at cmp1 and true at a later cmp2
\* implies cmp2 is at or after issuedAt (notBefore); verify_expires_at false at
\* cmp1 is false at every later cmp2.
C9_FailureEndsOnlyPastThreshold ==
    /\ (Advanced("verify_issued_at") /\ ~prev.ret /\ last.ret)
          => (claims.issued_at # None /\ last.cmp >= Unwrap(claims.issued_at))
    /\ (Advanced("verify_not_before") /\ ~prev.ret /\ last.ret)
          => (claims.not_before # None /\ last.cmp >= Unwrap(claims.not_before))
    /\ (Advanced("verify_expires_at") /\ ~prev.ret) => ~last.ret

\* C9 amended: the same, for a later comparison time cmp2 whose whole-second
\* timestamp is not 0 and, for verify_expires_at, an earlier comparison time cmp1
\* whose whole-second timestamp is not 0 either.
C9_FailureEndsOnlyPastThresholdOffZeroSecond ==
    /\ (Advanced("verify_issued_at") /\ ~InZeroSecond(last.cmp)
          /\ ~prev.ret /\ last.ret)
          => (claims.issued_at # None /\ last.cmp >= Unwrap(claims.issued_at))
    /\ (Advanced("verify_not_before") /\ ~InZeroSecond(last.cmp)
          /\ ~prev.ret /\ last.ret)
          => (claims.not_before # None /\ last.cmp >= Unwrap(claims.not_before))
    /\ (Advanced("verify_expires_at") /\ ~InZeroSecond(prev.cmp)
          /\ ~InZeroSecond(last.cmp) /\ ~prev.ret)
          => ~last.ret

\* an expired token re-checked later, off the zero second, is still expired
C9_Witness ==
    /\ Advanced("verify_expires_at")
    /\ ~InZeroSecond(prev.cmp)
    /\ ~InZeroSecond(last.cmp)
    /\ prev.cmp > Epoch
    /\ claims.expires_at # None
    /\ ~prev.ret
    /\ ~last.ret

----------------------------------------------------------------------------
(* Concurrent callers sharing one claims value                             *)

Callers == 1 .. NumCallers

\* The claims value a call leaves behind. Every method takes &self, a shared
\* borrow, and assigns to no field.
self_after_take(c) == [c EXCEPT !.expires_at = None]

self_after(c) == c

\* Comparison times and claim fields of the concurrent runs: the epoch and the
\* instant one second after it; fields absent, at that instant or one tick later.
ConcInstants == {Epoch, TicksPerSec} \cap NumericDate
ConcFields == Option({TicksPerSec, TicksPerSec + 1} \cap NumericDate)
ConcClaims ==
    { c \in RegisteredClaims :
        /\ c.issuer # None
        /\ c.expires_at \in ConcFields
        /\ c.issued_at \in ConcFields
        /\ c.not_before \in ConcFields }

Set(k, pc, fn, cmp, require, ret) ==
    /\ calls' = [calls EXCEPT ![k] =
                    [pc |-> pc, fn |-> fn, cmp |-> cmp, require |-> require, ret |-> ret]]
    /\ claims' = self_after(claims)
    /\ UNCHANGED <<last, prev, args, query_part>>

\* The dispatch of a verify call on its function name.
Verify(fn, c, cmp, require) ==
    CASE fn = "verify_expires_at" -> verify_expires_at(c, cmp, require)
      [] fn = "verify_issued_at" -> verify_issued_at(c, cmp, require)
      [] fn = "verify_not_before" -> verify_not_before(c, cmp, require)

\* A caller enters one of the verify functions with its own arguments.
InvokeVerify(k) ==
    /\ calls[k].pc = "idle"
    /\ \E fn \in VerifyFns, cmp \in ConcInstants, require \in BOOLEAN :
          Set(k, "verify", fn, cmp, require, FALSE)

\* The verify function reads the claims and returns.
ReturnVerify(k) ==
    /\ calls[k].pc = "verify"
    /\ Set(k, "done", calls[k].fn, calls[k].cmp, calls[k].require,
           Verify(calls[k].fn, claims, calls[k].cmp, calls[k].require))

\* A caller enters valid.
InvokeValid(k) ==
    /\ calls[k].pc = "idle"
    /\ Set(k, "now", "valid", Epoch, FALSE, FALSE)

\* let now = Utc::now();
ValidNow(k) ==
    /\ calls[k].pc = "now"
    /\ \E now \in ConcInstants :
          Set(k, "check_exp", "valid", now, FALSE, FALSE)

\* if !self.verify_expires_at(now, false) { return Err(Expired) }
ValidCheckExp(k) ==
    /\ calls[k].pc = "check_exp"
    /\ IF ~verify_expires_at(claims, calls[k].cmp, FALSE)
       THEN Set(k, "done", "valid", calls[k].cmp, FALSE, "Expired")
       ELSE Set(k, "check_iat", "valid", calls[k].cmp, FALSE, FALSE)

\* if !self.verify_issued_at(now, false) { return Err(IssuedAt) }
ValidCheckIat(k) ==
    /\ calls[k].pc = "check_iat"
    /\ IF ~verify_issued_at(claims, calls[k].cmp, FALSE)
       THEN Set(k, "done", "valid", calls[k].cmp, FALSE, "IssuedAt")
       ELSE Set(k, "check_nbf", "valid", calls[k].cmp, FALSE, FALSE)

\* if !self.verify_not_before(now, false) { return Err(NotValidYet) }  Ok(())
ValidCheckNbf(k) ==
    /\ calls[k].pc = "check_nbf"
    /\ IF ~verify_not_before(claims, calls[k].cmp, FALSE)
       THEN Set(k, "done", "valid", calls[k].cmp, FALSE, "NotValidYet")
       ELSE Set(k, "done", "valid", calls[k].cmp, FALSE, "Ok")

Idle == [pc |-> "idle", fn |-> "none", cmp |-> Epoch, require |-> FALSE, ret |-> FALSE]

InitConc ==
    /\ claims \in ConcClaims
    /\ last = NoCall
    /\ prev = NoCall
    /\ calls = [k \in Callers |-> Idle]
    /\ args = NoArgs
    /\ query_part = None

NextConc ==
    \E k \in Callers :
        \/ InvokeVerify(k)
        \/ ReturnVerify(k)
        \/ InvokeValid(k)
        \/ ValidNow(k)
        \/ ValidCheckExp(k)
        \/ ValidCheckIat(k)
        \/ ValidCheckNbf(k)

SpecConc == InitConc /\ [][NextConc]_vars

\* What a call returns when it runs alone on the claims value c.
Alone(c, call) ==
    IF call.fn = "valid" THEN valid(c, call.cmp)
    ELSE Verify(call.fn, c, call.cmp, call.require)

\* C10: whatever the interleaving of the callers, no step changes the claims
\* value, and every call that completes returns what it would return alone for
\* its own comparison time and require flag.
C10_CallsIndependent ==
    [][ /\ claims' = claims
        /\ \A k \in Callers :
              (calls[k].pc # "done" /\ calls'[k].pc = "done")
                  => calls'[k].ret = Alone(claims, calls'[k]) ]_vars

\* one caller has completed valid with a failure while another is between the
\* checks of its own valid call
C10_Witness ==
    \E k1, k2 \in Callers :
        /\ k1 # k2
        /\ calls[k1].pc = "done"
        /\ calls[k1].fn = "valid"
        /\ calls[k1].ret = "NotValidYet"
        /\ calls[k2].pc = "check_iat"

----------------------------------------------------------------------------
(* EnforceQueryArgs and its serialization to a URL query string            *)

\* A String is a sequence of one-character strings.
QueryValues == { <<"0">>, <<"1">>, <<"o", "/", "p">> }

\* The fields of the struct in declaration order, each name as its words.
EnforceQueryArgsFields ==
    << <<"permission", "id">>, <<"model", "id">>,
       <<"resource", "id">>, <<"enforcer", "id">> >>

\* The Rust field name: the words joined by '_'.
RECURSIVE snake_case(_)
snake_case(words) ==
    IF Len(words) = 1 THEN words[1]
    ELSE words[1] \o "_" \o snake_case(Tail(words))

EnforceQueryArgs ==
    [ {snake_case(EnforceQueryArgsFields[i]) : i \in DOMAIN EnforceQueryArgsFields}
        -> Option(QueryValues) ]

\* A word with its first letter in upper case.
Capitalize(w) ==
    CASE w = "id" -> "Id"
      [] w = "permission" -> "Permission"
      [] w = "model" -> "Model"
      [] w = "resource" -> "Resource"
      [] w = "enforcer" -> "Enforcer"

RECURSIVE CapitalizeAll(_)
CapitalizeAll(words) ==
    IF words = <<>> THEN ""
    ELSE Capitalize(words[1]) \o CapitalizeAll(Tail(words))

rename_all_none(words) == snake_case(words)

\* #[serde(rename_all = "camelCase")]: the key a field is serialized under.
rename_all(words) == words[1] \o CapitalizeAll(Tail(words))

\* #[serde(skip_serializing_if = "Option::is_none")]
skip_serializing_if(o) == o = None

\* application/x-www-form-urlencoded byte serialization of one character:
\* alphanumerics and * - . _ unchanged, space as '+', anything else %XX.
Unreserved == {"0", "1", "o", "p", "*", "-", ".", "_"}
byte_serialize_char(ch) ==
    IF ch \in Unreserved THEN ch
    ELSE IF ch = " " THEN "+"
    ELSE CASE ch = "/" -> "%2F"
           [] ch = "&" -> "%26"
           [] ch = "=" -> "%3D"

RECURSIVE byte_serialize(_)
byte_serialize(str) ==
    IF str = <<>> THEN ""
    ELSE byte_serialize_char(str[1]) \o byte_serialize(Tail(str))

\* form_urlencoded::Serializer::append_pair: '&' before every pair but the first.
append_pair(target, key, value) ==
    IF target = "" THEN key \o "=" \o value
    ELSE target \o "&" \o key \o "=" \o value

\* serde_urlencoded::to_string(&args): the derived Serialize visits the fields
\* in declaration order, from field i on, appending to target.
RECURSIVE serialize_fields(_, _, _)
serialize_fields(a, i, target) ==
    IF i > Len(EnforceQueryArgsFields) THEN target
    ELSE LET words == EnforceQueryArgsFields[i]
             o == a[snake_case(words)]
         IN  IF skip_serializing_if(o)
             THEN serialize_fields(a, i + 1, target)
             ELSE serialize_fields(a, i + 1,
                      append_pair(target, rename_all(words),
                                  byte_serialize(Unwrap(o))))

to_string(a) == serialize_fields(a, 1, "")

\* let query_part = serde_urlencoded::to_string(&args).unwrap();
Serialize ==
    /\ query_part = None
    /\ query_part' = Some(to_string(args))
    /\ UNCHANGED <<claims, last, prev, calls, args>>

DefaultClaims ==
    [issuer |-> None, subject |-> None, audience |-> <<>>, expires_at |-> None,
     not_before |-> None, issued_at |-> None, id |-> None]

InitQuery ==
    /\ args \in EnforceQueryArgs
    /\ query_part = None
    /\ claims = DefaultClaims
    /\ last = NoCall
    /\ prev = NoCall
    /\ calls = <<>>

NextQuery == Serialize

SpecQuery == InitQuery /\ [][NextQuery]_vars

\* The text a field contributes under a key: nothing when it is None.
Emitted(key, o) ==
    IF o = None THEN <<>> ELSE << key \o "=" \o byte_serialize(Unwrap(o)) >>

RECURSIVE JoinAmp(_)
JoinAmp(parts) ==
    IF parts = <<>> THEN ""
    ELSE IF Len(parts) = 1 THEN parts[1]
    ELSE parts[1] \o "&" \o JoinAmp(Tail(parts))

\* C8: the query string holds exactly the fields that are Some, under the keys
\* permissionId, modelId, resourceId, enforcerId, in that order, joined by '&';
\* with every field None it is the empty string.
C8_QueryEmitsSomeFieldsInOrder ==
    query_part # None =>
        /\ Unwrap(query_part) =
              JoinAmp(Emitted("permissionId", args.permission_id)
                      \o Emitted("modelId", args.model_id)
                      \o Emitted("resourceId", args.resource_id)
                      \o Emitted("enforcerId", args.enforcer_id))
        /\ (\A f \in DOMAIN args : args[f] = None) => Unwrap(query_part) = ""
        /\ (args = [NoArgs EXCEPT !.permission_id = Some(<<"0">>),
                                  !.model_id = Some(<<"1">>)])
              => Unwrap(query_part) = "permissionId=0&modelId=1"

\* a field in the middle is None and is left out between two that are present
C8_Witness ==
    /\ query_part # None
    /\ args.permission_id # None
    /\ args.model_id = None
    /\ args.resource_id = None
    /\ args.enforcer_id = Some(<<"o", "/", "p">>)
    /\ Len(Unwrap(query_part)) > 0

====
